---- MODULE Spec2Model ----
(***************************************************************************)
(* A model of OSINT/VestaS.py: the PortScanner object, the probe           *)
(* (scan_port, banner_grab) and the two scan coordinators (scan_range,     *)
(* scan_specific_ports) that fan probes out over a ThreadPoolExecutor and  *)
(* collect them with as_completed.                                         *)
(***************************************************************************)
EXTENDS Integers, Sequences, FiniteSets, TLC

(* ------------------------------ bounds -------------------------------- *)

\* widest port range a scan is given
MaxPorts == 3
\* longest list of specific ports a scan is given
MaxList == 2
\* largest max_workers a scan is given
MaxWorkers == 2
\* number of scans run on the one PortScanner object
MaxScans == 2

(* ------------------------- program constants --------------------------- *)

\* lowest and highest port of the extended scan (1-65535)
PORT_MIN == 1
PORT_MAX == 65535
\* s.recv(1024)
RECV_SIZE == 1024
\* banner[:100]
BANNER_CAP == 100

COMMON_SERVICES ==
    (21 :> "FTP") @@ (22 :> "SSH") @@ (23 :> "Telnet") @@ (25 :> "SMTP") @@
    (53 :> "DNS") @@ (80 :> "HTTP") @@ (110 :> "POP3") @@ (135 :> "RPC") @@
    (139 :> "NetBIOS") @@ (143 :> "IMAP") @@ (443 :> "HTTPS") @@
    (993 :> "IMAPS") @@ (995 :> "POP3S") @@ (1433 :> "SQL Server") @@
    (3306 :> "MySQL") @@ (3389 :> "RDP") @@ (5432 :> "PostgreSQL") @@
    (5900 :> "VNC") @@ (6379 :> "Redis") @@ (27017 :> "MongoDB") @@
    (8080 :> "HTTP-Alt") @@ (9200 :> "Elasticsearch")

\* COMMON_SERVICES.get(port, "Unknown")
ServiceOf(port) ==
    IF port \in DOMAIN COMMON_SERVICES THEN COMMON_SERVICES[port] ELSE "Unknown"

\* the ports banner_grab sends an HTTP request to
HTTP_PORTS == {80, 443, 8080, 8443}

(* ------------------------------- text ---------------------------------- *)
\* A str or bytes value is a sequence of one-character strings.

NoBanner == <<"N", "o", " ", "b", "a", "n", "n", "e", "r">>
NotCaptured == <<"N", "o", "t", " ", "c", "a", "p", "t", "u", "r", "e", "d">>

\* the characters str.strip() removes
Whitespace == {" ", "\t", "\n", "\r"}
\* a byte that is no valid UTF-8: decode(errors='ignore') drops it
BadByte == "xFF"

\* s[:n]
Take(s, n) == SubSeq(s, 1, IF Len(s) < n THEN Len(s) ELSE n)

\* bytes.decode('utf-8', errors='ignore')
decode(bytes) == SelectSeq(bytes, LAMBDA b : b # BadByte)

RECURSIVE lstrip(_)
lstrip(s) == IF s # <<>> /\ Head(s) \in Whitespace THEN lstrip(Tail(s)) ELSE s

RECURSIVE rstrip(_)
rstrip(s) ==
    IF s # <<>> /\ s[Len(s)] \in Whitespace
    THEN rstrip(SubSeq(s, 1, Len(s) - 1))
    ELSE s

\* str.strip()
strip(s) == rstrip(lstrip(s))

(* ----------------------------- the network ----------------------------- *)
\* What the target answers. A host name either resolves or does not; a port
\* of a resolving host accepts the connection ("open") or does not
\* ("refused": connect_ex returns a nonzero code, a timeout included); the
\* banner connection to an open port fails at some call or delivers bytes.

Hosts == {"scanme.example", "no-such-host.invalid"}
Resolves(host) == host = "scanme.example"

Repeat(c, n) == [i \in 1..n |-> c]

Replies ==
    [ connect_fails |-> [fail |-> "connect", data |-> <<>>],
      send_fails    |-> [fail |-> "send",    data |-> <<"o", "k">>],
      recv_fails    |-> [fail |-> "recv",    data |-> <<>>],
      silent        |-> [fail |-> "none",    data |-> <<>>],
      blank         |-> [fail |-> "none",    data |-> <<"\r", "\n">>],
      garbage       |-> [fail |-> "none",    data |-> <<BadByte, " ", BadByte>>],
      padded        |-> [fail |-> "none",
                         data |-> <<" ", "S", "S", "H", BadByte, " ", "2", "\r", "\n">>],
      long          |-> [fail |-> "none",
                         data |-> <<"\n">> \o Repeat("a", 99) \o <<" ", "b", "c", "\n">>] ]

ReplyNames == DOMAIN Replies
\* the replies the coordinator's scans meet
ScanReplies == {"recv_fails", "padded"}

\* s.connect_ex((host, port)): "raise" is an exception out of the call
\* (socket.gaierror for a name that does not resolve, OverflowError for a
\* port outside 0..65535), otherwise the port's answer; nothing listens on
\* port 0.
connect_ex(host, port, conn) ==
    IF ~Resolves(host) \/ port < 0 \/ port > 65535 THEN "raise"
    ELSE IF port = 0 THEN "refused"
    ELSE conn

(* ------------------------------ the probe ------------------------------ *)
\* A probe's value is an Option: <<>> is None, <<r>> is the dict r.
\* connects / opened / closed count the connection attempts made, the
\* sockets created and the sockets closed by the call.

None == <<>>

\* banner_grab with the except clause left out of the try
banner_grab_try(host, port, reply) ==
    IF reply.fail = "connect"
    THEN [raised |-> TRUE, banner |-> <<>>, connects |-> 1, opened |-> 1, closed |-> 0]
    ELSE IF port \in HTTP_PORTS /\ reply.fail = "send"
    THEN [raised |-> TRUE, banner |-> <<>>, connects |-> 1, opened |-> 1, closed |-> 0]
    ELSE IF reply.fail = "recv"
    THEN [raised |-> TRUE, banner |-> <<>>, connects |-> 1, opened |-> 1, closed |-> 0]
    ELSE LET banner == strip(decode(Take(reply.data, RECV_SIZE)))
         IN  [raised |-> FALSE,
              banner |-> IF banner # <<>> THEN Take(banner, BANNER_CAP) ELSE NoBanner,
              connects |-> 1, opened |-> 1, closed |-> 1]

\* a banner_grab that returns the stripped text whatever it is
banner_grab_unguarded(host, port, reply) ==
    LET r == banner_grab_try(host, port, reply)
    IN  IF r.raised
        THEN [r EXCEPT !.raised = FALSE, !.banner = NoBanner]
        ELSE [r EXCEPT !.banner =
                 Take(strip(decode(Take(reply.data, RECV_SIZE))), BANNER_CAP)]

\* a banner_grab that connects once more when its connect failed
banner_grab_retrying(host, port, reply) ==
    LET r == banner_grab_try(host, port, reply)
    IN  IF r.raised
        THEN [r EXCEPT !.raised = FALSE, !.banner = NoBanner,
                       !.connects = IF reply.fail = "connect" THEN 2 ELSE 1]
        ELSE r

\* PortScanner.banner_grab: "except: return 'No banner'"
banner_grab(host, port, reply) ==
    LET r == banner_grab_try(host, port, reply)
    IN  IF r.raised THEN [r EXCEPT !.raised = FALSE, !.banner = NoBanner] ELSE r

\* scan_port with the except clause left out of the try
scan_port_try(host, port, grab_banner, conn, reply) ==
    LET result == connect_ex(host, port, conn)
    IN  IF result = "raise"
        THEN [raised |-> TRUE, value |-> None, connected |-> FALSE,
              connects |-> 1, opened |-> 1, closed |-> 0]
        ELSE IF result = "open"
        THEN LET b == IF grab_banner
                      THEN banner_grab(host, port, reply)
                      ELSE [raised |-> FALSE, banner |-> NotCaptured,
                            connects |-> 0, opened |-> 0, closed |-> 0]
             IN  [raised |-> b.raised,
                  value |-> <<[port |-> port, service |-> ServiceOf(port),
                               banner |-> b.banner, status |-> "Open"]>>,
                  connected |-> TRUE,
                  connects |-> 1 + b.connects,
                  opened |-> 1 + b.opened,
                  closed |-> 1 + b.closed]
        ELSE [raised |-> FALSE, value |-> None, connected |-> FALSE,
              connects |-> 1, opened |-> 1, closed |-> 1]

\* a scan_port that reports every port it was given, open or not
scan_port_reports_closed(host, port, grab_banner, conn, reply) ==
    LET r == scan_port_try(host, port, grab_banner, conn, reply)
    IN  [r EXCEPT !.raised = FALSE,
                  !.value = <<[port |-> port, service |-> ServiceOf(port),
                               banner |-> NotCaptured, status |-> "Open"]>>]

\* a scan_port whose exceptions reach the caller
scan_port_unguarded(host, port, grab_banner, conn, reply) ==
    scan_port_try(host, port, grab_banner, conn, reply)

\* PortScanner.scan_port: "except: pass", then "return None"
scan_port(host, port, grab_banner, conn, reply) ==
    LET r == scan_port_try(host, port, grab_banner, conn, reply)
    IN  IF r.raised THEN [r EXCEPT !.raised = FALSE, !.value = None] ELSE r

(* ----------------------------- sorted() -------------------------------- *)

RECURSIVE InsertByPort(_, _)
\* x goes after every element whose port is <= its own (a stable sort)
InsertByPort(s, x) ==
    IF s = <<>> THEN <<x>>
    ELSE IF x.port < Head(s).port THEN <<x>> \o s
    ELSE <<Head(s)>> \o InsertByPort(Tail(s), x)

RECURSIVE SortByPort(_)
SortByPort(s) ==
    IF s = <<>> THEN <<>>
    ELSE InsertByPort(SortByPort(SubSeq(s, 1, Len(s) - 1)), s[Len(s)])

\* the results left in completion order
unsorted(open_ports) == open_ports

\* sorted(open_ports, key=lambda x: x['port'])
sorted(open_ports) == SortByPort(open_ports)

\* a range that stops one short of end_port
range_exclusive(start_port, end_port) ==
    IF end_port - 1 < start_port THEN <<>>
    ELSE [i \in 1..(end_port - start_port) |-> start_port + i - 1]

\* range(start_port, end_port + 1) as a sequence
range(start_port, end_port) ==
    IF end_port < start_port THEN <<>>
    ELSE [i \in 1..(end_port - start_port + 1) |-> start_port + i - 1]

(* ------------------------------ the state ------------------------------ *)

VARIABLES
    results,      \* scanner.results
    start_time,   \* scanner.start_time (0 is None)
    end_time,     \* scanner.end_time (0 is None)
    target,       \* the host the scans are run against
    cfg,          \* the scan that is asked for: function, ports, options
    pc,           \* where the calling thread is: idle, submit, collect, unwind
    scans,        \* calls of scan_range / scan_specific_ports so far
    clock,        \* the value the next datetime.now() returns
    futures,      \* the futures dict, in submission order
    open_ports,   \* the local list the results are appended to
    progress,     \* progress.advance() calls on the task
    outcome,      \* how the last call ended, or the exception that is unwinding
    returned,     \* the value the last call returned
    env,          \* what the network has answered so far, by port
    probe,        \* the last direct call of scan_port, with what it returned
    saved,        \* the last call of save_results, with the file it left
    main          \* where main() is, "none" when the scans are called directly

vars == <<results, start_time, end_time, target, cfg, pc, scans, clock,
          futures, open_ports, progress, outcome, returned, env, probe,
          saved, main>>

scanner_vars == <<results, start_time, end_time>>
call_vars == <<pc, scans, clock, futures, open_ports, progress, outcome, returned>>

\* the ports a custom range starts at, and the ports of a specific-ports list
RangeStarts == {0, 1, 65535}
SpecificPorts == {22, 80}

RECURSIVE SeqsUpTo(_, _)
\* the sequences over S of length at most n
SeqsUpTo(S, n) ==
    IF n = 0 THEN {<<>>}
    ELSE LET shorter == SeqsUpTo(S, n - 1)
         IN  shorter \cup {Append(q, x) : q \in shorter, x \in S}

\* what get_scan_options can hand to a scan
RangeConfigs ==
    [fn : {"scan_range"}, start_port : RangeStarts, width : 0..MaxPorts,
     ports : {<<>>}, max_workers : 1..MaxWorkers, grab_banner : BOOLEAN]
SpecificConfigs ==
    [fn : {"scan_specific_ports"}, start_port : {0}, width : {0},
     ports : SeqsUpTo(SpecificPorts, MaxList),
     max_workers : 1..MaxWorkers, grab_banner : BOOLEAN]
Configs == RangeConfigs \cup SpecificConfigs

\* end_port of a range configuration
EndPort(c) == c.start_port + c.width - 1

\* the iterable the futures dict is built from
PortsOf(c) ==
    IF c.fn = "scan_range" THEN range(c.start_port, EndPort(c)) ELSE c.ports

\* total= of progress.add_task
TotalOf(c) ==
    IF c.fn = "scan_range" THEN EndPort(c) - c.start_port + 1 ELSE Len(c.ports)

AllPorts ==
    SpecificPorts \cup {s + d : s \in RangeStarts, d \in 0..MaxPorts}
    \cup {PORT_MIN, PORT_MAX}

Unknown == [conn |-> "unknown", reply |-> "unknown"]

\* save_results has not been called
NoSave ==
    [called |-> FALSE, format |-> "", status |-> "", after_error |-> FALSE,
     written |-> FALSE,
     file |-> [scan_time |-> 0, duration |-> 0, header |-> <<>>, rows |-> <<>>]]

NoProbe ==
    [host |-> "", port |-> 0, grab_banner |-> FALSE, conn |-> "unknown",
     reply |-> "unknown", called |-> FALSE, out |-> scan_port("", 0, FALSE, "refused", Replies.silent)]

\* PortScanner.__init__, and the configuration read before the scan
Init ==
    /\ results = <<>>
    /\ start_time = 0
    /\ end_time = 0
    /\ target \in Hosts
    /\ cfg \in Configs
    /\ pc = "idle"
    /\ scans = 0
    /\ clock = 1
    /\ futures = <<>>
    /\ open_ports = <<>>
    /\ progress = 0
    /\ outcome = "none"
    /\ returned = <<>>
    /\ env = [p \in AllPorts |-> Unknown]
    /\ probe = NoProbe
    /\ saved = NoSave
    /\ main = "none"

(* --------------------------- the thread pool --------------------------- *)

Indices(state) == {i \in 1..Len(futures) : futures[i].state = state}

\* a worker thread of ThreadPoolExecutor(max_workers=...) is free
WorkerAvailableUnbounded(max_workers) == TRUE

\* a pool that keeps one of its workers back
WorkerAvailableButOne(max_workers) ==
    Cardinality(Indices("RUNNING")) < max_workers - 1

WorkerAvailable(max_workers) == Cardinality(Indices("RUNNING")) < max_workers

\* executor.submit(scan_port, host, p, grab_banner): a pending future
NewFuture(p) ==
    [port |-> p, state |-> "PENDING", value |-> None, raised |-> FALSE,
     connected |-> FALSE, connects |-> 0, opened |-> 0, closed |-> 0,
     yielded |-> FALSE, late |-> FALSE, runs |-> 0]

\* the answers the network can give a probe of port p: the one it gave
\* before, if it gave one
ConnAnswers(p) ==
    IF connect_ex(target, p, "open") # "open" THEN {env[p].conn}
    ELSE IF env[p].conn = "unknown" THEN {"open", "refused"}
    ELSE {env[p].conn}

ReplyAnswers(p, conn, grab_banner, choice) ==
    IF connect_ex(target, p, conn) # "open" \/ ~grab_banner THEN {env[p].reply}
    ELSE IF env[p].reply = "unknown" THEN choice
    ELSE {env[p].reply}

ReplyOf(name) == IF name \in ReplyNames THEN Replies[name] ELSE Replies.silent

(* ----------------------------- the actions ----------------------------- *)

\* lines 74-90 / 192-200: the start stamp, the empty list, the executor
BeginScan ==
    /\ pc = "idle"
    /\ scans < MaxScans
    /\ start_time' = clock
    /\ clock' = clock + 1
    /\ open_ports' = <<>>
    /\ futures' = <<>>
    /\ progress' = 0
    /\ outcome' = "none"
    /\ returned' = <<>>
    /\ scans' = scans + 1
    /\ pc' = "submit"
    /\ UNCHANGED <<results, end_time, target, cfg, env, probe, saved, main>>

\* PortScanner.scan_range is called
ScanRange == cfg.fn = "scan_range" /\ BeginScan

\* scan_specific_ports is called
ScanSpecificPorts == cfg.fn = "scan_specific_ports" /\ BeginScan

\* one step of the dict comprehension: the next port is submitted
Submit ==
    /\ pc = "submit"
    /\ Len(futures) < Len(PortsOf(cfg))
    /\ futures' = Append(futures, NewFuture(PortsOf(cfg)[Len(futures) + 1]))
    /\ UNCHANGED <<scanner_vars, target, cfg, pc, scans, clock, open_ports,
                   progress, outcome, returned, env, probe, saved, main>>

\* the dict is complete: as_completed(futures) is entered
AsCompleted ==
    /\ pc = "submit"
    /\ Len(futures) = Len(PortsOf(cfg))
    /\ pc' = "collect"
    /\ UNCHANGED <<scanner_vars, target, cfg, scans, clock, futures, open_ports,
                   progress, outcome, returned, env, probe, saved, main>>

\* a free worker takes the oldest pending work item off the queue; the
\* workers keep doing so while the executor's shutdown(wait=True) waits
StartProbe ==
    /\ pc \in {"submit", "collect", "unwind"}
    /\ Indices("PENDING") # {}
    /\ WorkerAvailable(cfg.max_workers)
    /\ LET i == CHOOSE j \in Indices("PENDING") :
                    \A k \in Indices("PENDING") : j <= k
       IN  futures' = [futures EXCEPT ![i].state = "RUNNING",
                                      ![i].late = (pc = "unwind"),
                                      ![i].runs = @ + 1]
    /\ UNCHANGED <<scanner_vars, target, cfg, pc, scans, clock, open_ports,
                   progress, outcome, returned, env, probe, saved, main>>

\* a worker runs scan_port to its end and sets the future's result
FinishProbe(i) ==
    /\ i \in Indices("RUNNING")
    /\ LET p == futures[i].port
       IN  \E conn \in ConnAnswers(p) :
           \E reply \in ReplyAnswers(p, conn, cfg.grab_banner, ScanReplies) :
               LET r == scan_port(target, p, cfg.grab_banner, conn, ReplyOf(reply))
               IN  /\ futures' = [futures EXCEPT ![i] =
                          [port |-> p, state |-> "FINISHED", value |-> r.value,
                           raised |-> r.raised, connected |-> r.connected,
                           connects |-> r.connects, opened |-> r.opened,
                           closed |-> r.closed, yielded |-> FALSE,
                           late |-> futures[i].late,
                           runs |-> futures[i].runs]]
                   /\ env' = [env EXCEPT ![p] = [conn |-> conn, reply |-> reply]]
    /\ UNCHANGED <<scanner_vars, target, cfg, pc, scans, clock, open_ports,
                   progress, outcome, returned, probe, saved, main>>

\* a progress count that a completed probe leaves as it was
advance_skipped(completed) == completed

\* progress.advance(task): the completed count goes up by one
advance(completed) == completed + 1

\* one turn of the as_completed loop: future.result(), the append, the
\* progress tick; an exception set on the future is raised by result()
Collect(i) ==
    /\ pc = "collect"
    /\ i \in Indices("FINISHED")
    /\ ~futures[i].yielded
    /\ futures' = [futures EXCEPT ![i].yielded = TRUE]
    /\ IF futures[i].raised
       THEN /\ pc' = "unwind"
            /\ outcome' = "Exception"
            /\ UNCHANGED <<open_ports, progress>>
       ELSE /\ open_ports' = IF futures[i].value # None
                             THEN open_ports \o futures[i].value
                             ELSE open_ports
            /\ progress' = advance(progress)
            /\ UNCHANGED <<pc, outcome>>
    /\ UNCHANGED <<scanner_vars, target, cfg, scans, clock, returned, env, probe, saved, main>>

\* a loop that is left as soon as one future has been yielded
loop_left_early == \E i \in 1..Len(futures) : futures[i].yielded

\* as_completed(futures) is exhausted: every future has been yielded
loop_exhausted == \A i \in 1..Len(futures) : futures[i].yielded

\* lines 102-104 / 212-214: the loop and both with blocks are left, the
\* end stamp is taken, the sorted list is stored and returned
Seal ==
    /\ pc = "collect"
    /\ loop_exhausted
    /\ end_time' = clock
    /\ clock' = clock + 1
    /\ results' = sorted(open_ports)
    /\ returned' = results'
    /\ outcome' = "return"
    /\ pc' = "idle"
    /\ UNCHANGED <<start_time, target, cfg, scans, futures, open_ports,
                   progress, env, probe, saved, main>>

\* Ctrl-C: KeyboardInterrupt is raised in the calling thread, inside the
\* with block of the executor
KeyboardInterrupt ==
    /\ pc \in {"submit", "collect"}
    /\ pc' = "unwind"
    /\ outcome' = "KeyboardInterrupt"
    /\ UNCHANGED <<scanner_vars, target, cfg, scans, clock, futures, open_ports,
                   progress, returned, env, probe, saved, main>>

\* the executor's __exit__ has waited for every work item; the exception
\* leaves the scan function (main catches it at lines 244-247)
Propagate ==
    /\ pc = "unwind"
    /\ Indices("PENDING") = {}
    /\ Indices("RUNNING") = {}
    /\ pc' = "idle"
    /\ UNCHANGED <<scanner_vars, target, cfg, scans, clock, futures, open_ports,
                   progress, outcome, returned, env, probe, saved, main>>

Next ==
    \/ ScanRange
    \/ ScanSpecificPorts
    \/ Submit
    \/ AsCompleted
    \/ StartProbe
    \/ \E i \in 1..MaxPorts : FinishProbe(i)
    \/ \E i \in 1..MaxPorts : Collect(i)
    \/ Seal
    \/ KeyboardInterrupt
    \/ Propagate

Spec == Init /\ [][Next]_vars

(* ------------------- the probe, called on its own ---------------------- *)

\* scan_port(host, port, grab_banner) against any answer of the network
ProbeCall ==
    /\ \E host \in Hosts, port \in AllPorts \cup HTTP_PORTS, grab_banner \in BOOLEAN,
          conn \in {"open", "refused"}, reply \in ReplyNames :
          probe' = [host |-> host, port |-> port, grab_banner |-> grab_banner,
                    conn |-> conn, reply |-> reply, called |-> TRUE,
                    out |-> scan_port(host, port, grab_banner, conn, Replies[reply])]
    /\ UNCHANGED <<scanner_vars, target, cfg, call_vars, env, saved, main>>

InitProbe ==
    /\ Init
    /\ target = "scanme.example"
    /\ cfg = [fn |-> "scan_range", start_port |-> 1, width |-> 0, ports |-> <<>>,
              max_workers |-> 1, grab_banner |-> FALSE]

NextProbe == ProbeCall

SpecProbe == InitProbe /\ [][NextProbe]_vars

(* ----------------------------- save_results ---------------------------- *)

\* format_type.lower()
lower(format_type) == IF format_type = "JSON" THEN "json" ELSE format_type

\* the format_type values save_results is given
Formats == {"json", "csv", "JSON", "xml"}

\* where the write of the file can fail
Failures == {"none", "open", "write"}

\* the fieldnames of the csv.DictWriter
CSV_HEADER == <<"port", "service", "status", "banner">>

\* what json.dump writes
json_file(scan_time, duration, rows) ==
    [scan_time |-> scan_time, duration |-> duration, header |-> <<>>, rows |-> rows]

\* what writeheader and writerows write
csv_file(rows) ==
    [scan_time |-> 0, duration |-> 0, header |-> CSV_HEADER, rows |-> rows]

\* a file opened with 'w' whose write failed
truncated_file == [scan_time |-> 0, duration |-> 0, header |-> <<>>, rows |-> <<>>]

\* an except clause that drops the results it could not write
save_error_clears(session) == [session EXCEPT !.results = <<>>]

\* "except Exception as e": the error is printed, the scanner is not touched
save_error(session) == session

\* PortScanner.save_results(filename, format_type)
SaveResults(format_type, failure) ==
    /\ pc = "idle"
    /\ LET session == [results |-> results, start_time |-> start_time,
                       end_time |-> end_time]
           call == [called |-> TRUE, format |-> format_type,
                    after_error |-> saved.status = "error"]
           writes == lower(format_type) \in {"json", "csv"}
           after == IF results # <<>> /\ writes /\ failure # "none"
                    THEN save_error(session)
                    ELSE session
       IN  /\ results' = after.results
           /\ start_time' = after.start_time
           /\ end_time' = after.end_time
           /\ saved' =
                IF results = <<>>
                THEN call @@ [status |-> "No results to save", written |-> FALSE,
                              file |-> truncated_file]
                ELSE IF writes /\ failure = "open"
                THEN call @@ [status |-> "error", written |-> FALSE,
                              file |-> truncated_file]
                ELSE IF writes /\ failure = "write"
                THEN call @@ [status |-> "error", written |-> TRUE,
                              file |-> truncated_file]
                ELSE IF lower(format_type) = "json"
                THEN call @@ [status |-> "saved", written |-> TRUE,
                              file |-> json_file(start_time, end_time - start_time,
                                                 results)]
                ELSE IF lower(format_type) = "csv"
                THEN call @@ [status |-> "saved", written |-> TRUE,
                              file |-> csv_file(results)]
                ELSE call @@ [status |-> "saved", written |-> FALSE,
                              file |-> truncated_file]
    /\ UNCHANGED <<target, cfg, call_vars, env, probe, main>>

\* the dicts scan_port can return for the ports of a specific-ports list
ResultDicts ==
    {[port |-> p, service |-> ServiceOf(p), banner |-> b, status |-> "Open"] :
        p \in SpecificPorts, b \in {NotCaptured, NoBanner}}

\* the sessions a scanner can hold between scans: results are only stored
\* together with an end stamp, after the start stamp was taken; a later
\* scan that was interrupted leaves a start stamp newer than the end stamp
Sessions ==
    {ss \in [results : {sorted(q) : q \in SeqsUpTo(ResultDicts, MaxList)},
             start_time : 0..3, end_time : {0, 2}] :
        /\ ss.results # <<>> => ss.end_time # 0
        /\ ss.end_time # 0 => ss.start_time # 0
        /\ ss.start_time # ss.end_time}

InitSave ==
    /\ \E ss \in Sessions :
          /\ results = ss.results
          /\ start_time = ss.start_time
          /\ end_time = ss.end_time
    /\ target = "scanme.example"
    /\ cfg = [fn |-> "scan_specific_ports", start_port |-> 0, width |-> 0,
              ports |-> <<22, 80>>, max_workers |-> 1, grab_banner |-> TRUE]
    /\ pc = "idle"
    /\ scans = 1
    /\ clock = 4
    /\ futures = <<>>
    /\ open_ports = <<>>
    /\ progress = 0
    /\ outcome = "none"
    /\ returned = <<>>
    /\ env = [p \in AllPorts |-> Unknown]
    /\ probe = NoProbe
    /\ saved = NoSave
    /\ main = "none"

NextSave == \E format_type \in Formats, failure \in Failures :
                SaveResults(format_type, failure)

SpecSave == InitSave /\ [][NextSave]_vars

(* ---------------------- scans that nobody interrupts ------------------- *)
\* The scan with no Ctrl-C. Each connect and each banner read is bounded by
\* its timeout (settimeout(0.5), settimeout(2)), so a running probe always
\* can finish; the executor's workers and the calling thread are scheduled
\* by the operating system, which starves none of them: every step that
\* stays possible is taken in the end.

\* a step of a scan that is under way
ScanStep ==
    \/ Submit
    \/ AsCompleted
    \/ StartProbe
    \/ \E i \in 1..MaxPorts : FinishProbe(i)
    \/ \E i \in 1..MaxPorts : Collect(i)
    \/ Seal

NextLive == ScanRange \/ ScanSpecificPorts \/ ScanStep

\* a scan under way does not stop while one of its steps is possible
Fairness == WF_vars(ScanStep)

SpecLive == Init /\ [][NextLive]_vars /\ Fairness

(* --------------------------------- main -------------------------------- *)

\* what get_scan_options can hand to main: a range with its options, or
\* (choice 4) a non-empty port list; choice 4 returns before threads and
\* banners are asked for
MenuConfigs ==
    RangeConfigs \cup
    {c \in SpecificConfigs :
        c.ports # <<>> /\ c.max_workers = 1 /\ c.grab_banner = FALSE}

\* the tuple get_scan_options returns (without the target)
get_scan_options(c) ==
    IF c.fn = "scan_specific_ports"
    THEN [specific_ports |-> c.ports, port_range |-> None, options |-> None]
    ELSE [specific_ports |-> None,
          port_range |-> <<c.start_port, EndPort(c)>>,
          options |-> [max_workers |-> c.max_workers,
                       grab_banner |-> c.grab_banner]]

\* f(..., **options): a mapping is unpacked, None raises TypeError before
\* the function is entered
unpacks(options) == options # None

\* main is in its try block, the scanner is new
InitMain ==
    /\ results = <<>>
    /\ start_time = 0
    /\ end_time = 0
    /\ target \in Hosts
    /\ cfg \in MenuConfigs
    /\ pc = "idle"
    /\ scans = 0
    /\ clock = 1
    /\ futures = <<>>
    /\ open_ports = <<>>
    /\ progress = 0
    /\ outcome = "none"
    /\ returned = <<>>
    /\ env = [p \in AllPorts |-> Unknown]
    /\ probe = NoProbe
    /\ saved = NoSave
    /\ main = "try"

\* lines 225-229: the scan is called with **options
MainCall ==
    /\ main = "try"
    /\ pc = "idle"
    /\ scans = 0
    /\ LET got == get_scan_options(cfg)
       IN  IF unpacks(got.options)
           THEN BeginScan
           ELSE /\ main' = "error"
                /\ UNCHANGED <<scanner_vars, target, cfg, call_vars, env,
                               probe, saved>>

\* line 232: the scan returned, display_results prints the session
MainDisplay ==
    /\ main = "try"
    /\ pc = "idle"
    /\ outcome = "return"
    /\ main' = "displayed"
    /\ UNCHANGED <<scanner_vars, target, cfg, call_vars, env, probe, saved>>

\* lines 235-242: the user asks for a file, as json or csv
MainSave ==
    /\ main = "displayed"
    /\ results # <<>>
    /\ ~saved.called
    /\ \E format_choice \in {"json", "csv"}, failure \in Failures :
          SaveResults(format_choice, failure)

\* main falls off the end of the try block
MainReturn ==
    /\ main = "displayed"
    /\ main' = "done"
    /\ UNCHANGED <<scanner_vars, target, cfg, call_vars, env, probe, saved>>

\* lines 244-245: except KeyboardInterrupt
MainInterrupted ==
    /\ main = "try"
    /\ pc = "idle"
    /\ outcome = "KeyboardInterrupt"
    /\ main' = "interrupted"
    /\ UNCHANGED <<scanner_vars, target, cfg, call_vars, env, probe, saved>>

NextMain ==
    \/ MainCall
    \/ Submit
    \/ AsCompleted
    \/ StartProbe
    \/ \E i \in 1..MaxPorts : FinishProbe(i)
    \/ \E i \in 1..MaxPorts : Collect(i)
    \/ Seal
    \/ KeyboardInterrupt
    \/ Propagate
    \/ MainDisplay
    \/ MainSave
    \/ MainReturn
    \/ MainInterrupted

SpecMain == InitMain /\ [][NextMain]_vars

(* ------------------------------ the claims ----------------------------- *)

PortsIn(seq) == {seq[k].port : k \in 1..Len(seq)}
Elements(seq) == {seq[k] : k \in 1..Len(seq)}
Distinct(seq) == \A j, k \in 1..Len(seq) : j # k => seq[j] # seq[k]
InRange(port) == PORT_MIN <= port /\ port <= PORT_MAX
AllInRange(seq) == \A k \in 1..Len(seq) : InRange(seq[k])
StrictlyAscending(seq) == \A k \in 1..(Len(seq) - 1) : seq[k].port < seq[k + 1].port

\* the last call of a scan function returned normally
Returned == pc = "idle" /\ outcome = "return"
\* the last call of a scan function was left by a KeyboardInterrupt
Interrupted == pc = "idle" /\ outcome = "KeyboardInterrupt"
\* what the network answers a connect to the port of future i
Answer(i) == connect_ex(target, futures[i].port, env[futures[i].port].conn)

\* C1: for a scan over distinct ports in [1,65535], the sequence stored in
\* scanner.results, which is the sequence a scan returns, is strictly
\* ascending by port (so it holds no port twice), whatever the order in
\* which the probes completed.
C1_SortedNoDuplicates ==
    (Distinct(PortsOf(cfg)) /\ AllInRange(PortsOf(cfg))) =>
        /\ StrictlyAscending(results)
        /\ Returned => (returned = results /\ PortsIn(results) = PortsIn(open_ports))

\* a scan returned two or more results that were collected in another order
C1_Witness ==
    /\ Returned
    /\ Distinct(PortsOf(cfg)) /\ AllInRange(PortsOf(cfg))
    /\ Len(results) >= 2
    /\ open_ports # results

\* C2: the probes that have started and not returned are never more than
\* max_workers.
C2_ConcurrencyLimit == Cardinality(Indices("RUNNING")) <= cfg.max_workers

\* max_workers probes are in flight while another port waits in the queue
C2_Witness ==
    /\ Cardinality(Indices("RUNNING")) = cfg.max_workers
    /\ Indices("PENDING") # {}
    /\ Len(PortsOf(cfg)) > cfg.max_workers

\* C3: when a scan returns, the ports of its results are exactly the
\* requested ports whose connect succeeded, one result per successful probe;
\* a probe whose connect was refused, timed out or raised has no entry.
C3_ExactlyTheOpenPorts ==
    Returned =>
        /\ Len(futures) = Len(PortsOf(cfg))
        /\ \A i \in 1..Len(futures) :
              /\ futures[i].port = PortsOf(cfg)[i]
              /\ futures[i].connected <=> Answer(i) = "open"
        /\ PortsIn(returned) = {futures[i].port : i \in {j \in 1..Len(futures) : futures[j].connected}}
        /\ Len(returned) = Cardinality({j \in 1..Len(futures) : futures[j].connected})

\* a scan returned with one port open and another one not
C3_Witness ==
    /\ Returned
    /\ \E i, j \in 1..Len(futures) :
          /\ futures[i].connected
          /\ Answer(j) = "refused"
          /\ futures[j].port \notin PortsIn(returned)
    /\ open_ports # results

\* the port set the configuration check is to refuse
BadPortSet(ports) == ports = <<>> \/ ~AllInRange(ports)

\* C4: a scan whose port set is empty or holds a port outside [1,65535] ends
\* in a configuration error with no probe dispatched; a scan of the single
\* port 1 or 65535 dispatches its probe.
C4_ConfigurationCheck ==
    /\ (scans > 0 /\ BadPortSet(PortsOf(cfg))) =>
          (futures = <<>> /\ outcome # "return")
    /\ (Returned /\ PortsOf(cfg) \in {<<PORT_MIN>>, <<PORT_MAX>>}) =>
          Len(futures) = 1

\* C5: after a scan that a KeyboardInterrupt ended, the results collected
\* before the interrupt are in scanner.results, sorted, they were returned,
\* and the end stamp of the scan is set.
C5_PartialResultsKept ==
    (Interrupted /\ open_ports # <<>>) =>
        /\ results = sorted(open_ports)
        /\ returned = results
        /\ end_time > start_time

\* C6: no probe starts after the interrupt: a port that was still queued
\* when the KeyboardInterrupt arrived is never probed.
C6_NoProbeStartsAfterInterrupt ==
    \A i \in 1..Len(futures) : ~futures[i].late

\* C7: no failure of a probe leaves the scan as an exception: a probe whose
\* connect raised has the value None, a probe whose banner read failed has
\* the banner "No banner", no future holds an exception, and the scan is
\* only ever left early by a KeyboardInterrupt.
C7_ProbeFailuresAbsorbed ==
    /\ outcome # "Exception"
    /\ pc = "unwind" => outcome = "KeyboardInterrupt"
    /\ \A i \in Indices("FINISHED") :
          /\ ~futures[i].raised
          /\ Answer(i) = "raise" => futures[i].value = None
          /\ (Answer(i) = "open" /\ cfg.grab_banner
              /\ Replies[env[futures[i].port].reply].fail \in {"connect", "recv"}) =>
                 (futures[i].value # None /\ futures[i].value[1].banner = NoBanner)

\* a scan returned although the connect of one port raised and the banner
\* read of another failed
C7_Witness ==
    /\ Returned
    /\ \E i, j \in 1..Len(futures) :
          /\ Answer(i) = "raise"
          /\ Answer(j) = "open"
          /\ futures[j].value # None
          /\ futures[j].value[1].banner = NoBanner

\* the banner connection of the last direct probe raised
BannerRaised ==
    \/ Replies[probe.reply].fail \in {"connect", "recv"}
    \/ Replies[probe.reply].fail = "send" /\ probe.port \in HTTP_PORTS

\* the decoded response of the last direct probe between its first and its
\* last character that is no whitespace
Trimmed ==
    LET text == decode(Replies[probe.reply].data)
        solid == {k \in 1..Len(text) : text[k] \notin Whitespace}
    IN  IF solid = {} THEN <<>>
        ELSE SubSeq(text,
                    CHOOSE k \in solid : \A m \in solid : k <= m,
                    CHOOSE k \in solid : \A m \in solid : m <= k)

\* a direct probe found its port open
ProbedOpen == probe.called /\ probe.out.value # None

\* C8 as it stands: with banner capture the banner is "No banner" when the
\* banner connection raised or delivered no data, and is otherwise the
\* trimmed response, which is not empty, cut to 100 characters; without
\* banner capture it is "Not captured" and no second connection is made.
C8_BannerAsStated ==
    ProbedOpen =>
        LET banner == probe.out.value[1].banner
        IN  IF ~probe.grab_banner
            THEN banner = NotCaptured /\ probe.out.connects = 1
            ELSE IF BannerRaised \/ Replies[probe.reply].data = <<>>
            THEN banner = NoBanner
            ELSE /\ banner # <<>>
                 /\ banner = Take(Trimmed, BANNER_CAP)

\* C8, amended: the banner is "No banner" also when the response is empty
\* once the undecodable bytes are dropped and the whitespace is trimmed.
C8_Banner ==
    ProbedOpen =>
        LET banner == probe.out.value[1].banner
        IN  IF ~probe.grab_banner
            THEN banner = NotCaptured /\ probe.out.connects = 1
            ELSE IF BannerRaised \/ Trimmed = <<>>
            THEN banner = NoBanner
            ELSE /\ banner # <<>>
                 /\ Len(banner) <= BANNER_CAP
                 /\ banner = SubSeq(Trimmed, 1, Len(banner))
                 /\ Len(banner) < BANNER_CAP => banner = Trimmed

\* an open port answered the banner read with whitespace only
C8_Witness ==
    /\ ProbedOpen
    /\ probe.grab_banner
    /\ ~BannerRaised
    /\ Replies[probe.reply].data # <<>>
    /\ Trimmed = <<>>
    /\ probe.out.value[1].banner = NoBanner

\* C9: a scan that returns after an earlier scan of the same target
\* returned, every port answering as it did before, stores and returns the
\* sequence the earlier scan stored, whatever the order of completion.
C9_SameResultsEveryRun ==
    [][(pc = "collect" /\ pc' = "idle" /\ end_time # 0) =>
          (results' = results /\ returned' = results)]_vars

\* the second of two scans that both returned collected its results in an
\* order that is not the sorted one
C9_Witness ==
    /\ Returned
    /\ scans = 2
    /\ clock = 2 * scans + 1
    /\ Len(results) >= 2
    /\ open_ports # results

\* C10: a scan of a host name that does not resolve dispatches no probe and
\* does not return a result list.
C10_UnresolvableHostFails ==
    (~Resolves(target) /\ ~BadPortSet(PortsOf(cfg))) =>
        /\ Indices("RUNNING") = {}
        /\ Indices("FINISHED") = {}
        /\ ~Returned

\* C11: a save_results call that fails leaves results, start_time and
\* end_time as they were, and a call that succeeds (after a failed one or
\* not) writes the session the scanner held before it: the rows are the
\* results, and the JSON file has the start stamp and the duration.
C11_FailedSaveKeepsSession ==
    [][/\ saved'.status = "error" => UNCHANGED scanner_vars
       /\ (saved'.status = "saved" /\ saved'.written) =>
             /\ UNCHANGED scanner_vars
             /\ saved'.file.rows = results
             /\ lower(saved'.format) = "json" =>
                   /\ saved'.file.scan_time = start_time
                   /\ saved'.file.duration = end_time - start_time]_vars

\* a save succeeded right after a save of the same scanner had failed
C11_Witness ==
    /\ saved.status = "saved"
    /\ saved.after_error
    /\ saved.written
    /\ saved.file.rows = results
    /\ results # <<>>

\* what the network answered the connect of the last direct probe
ProbeAnswer == connect_ex(probe.host, probe.port, probe.conn)

C13_EverySocketClosed ==
    probe.called => probe.out.closed = probe.out.opened

\* the number of probes whose port is p
ProbesOf(p) == Cardinality({i \in 1..Len(futures) : futures[i].port = p})

\* C14: when a scan returns, one scan_port task was dispatched for every
\* requested port and ran exactly once: every port from start_port to
\* end_port, or every entry of the list of specific ports, none skipped and
\* none run again.
C14_EveryPortProbedOnce ==
    Returned =>
        /\ \A i \in 1..Len(futures) :
              futures[i].state = "FINISHED" /\ futures[i].runs = 1
        /\ IF cfg.fn = "scan_range"
           THEN /\ Len(futures) = cfg.width
                /\ \A p \in cfg.start_port..EndPort(cfg) : ProbesOf(p) = 1
           ELSE /\ Len(futures) = Len(cfg.ports)
                /\ \A i \in 1..Len(futures) : futures[i].port = cfg.ports[i]

\* a scan of more ports than workers returned, one of its ports closed
C14_Witness ==
    /\ Returned
    /\ Len(futures) > cfg.max_workers
    /\ Len(futures) >= 3
    /\ \E i \in 1..Len(futures) : Answer(i) = "refused" /\ futures[i].runs = 1

\* C15: the end stamp of the current scan (an end stamp later than the
\* scan's start stamp) is only ever set, and its results are only ever
\* stored, when every port has been submitted and no probe of the scan is
\* queued or in flight.
C15_SealedAfterEveryProbe ==
    end_time > start_time =>
        /\ pc = "idle"
        /\ Len(futures) = Len(PortsOf(cfg))
        /\ Indices("PENDING") = {}
        /\ Indices("RUNNING") = {}
        /\ results = returned
        /\ Len(results) = Len(open_ports)

\* the second scan of a scanner was sealed after its probes, some of which
\* had run side by side
C15_Witness ==
    /\ end_time > start_time
    /\ scans = 2
    /\ Len(futures) >= 2
    /\ cfg.max_workers >= 2
    /\ results # <<>>

\* the futures the as_completed loop has handled
Yielded == {i \in 1..Len(futures) : futures[i].yielded}

\* C16: within a scan the progress count never goes down and goes up by
\* exactly one with each probe the loop has collected, open or not; it is
\* never more than the number of probes that have completed, so never more
\* than the number dispatched; and when the scan returns it is the number
\* dispatched, which is the task's total.
C16_ProgressCount ==
    /\ [](/\ progress = Cardinality(Yielded)
          /\ progress <= Cardinality(Indices("FINISHED"))
          /\ progress <= Len(futures)
          /\ Returned => (progress = Len(futures) /\ progress = TotalOf(cfg)))
    /\ [][scans' = scans =>
             /\ progress' \in {progress, progress + 1}
             /\ progress' = progress + 1 <=> Yielded' # Yielded]_vars

\* a scan returned with every probe counted, a closed port among them
C16_Witness ==
    /\ Returned
    /\ progress = MaxPorts
    /\ Len(results) < progress
    /\ results # <<>>

\* C17: a scan that has been called and is not interrupted returns in the
\* end with its session sealed, and before that every port of its port set
\* is submitted and every submitted probe is started, finishes and is
\* collected.
C17_ScanCompletes ==
    (pc # "idle") ~>
        /\ Returned
        /\ end_time > start_time
        /\ Len(futures) = Len(PortsOf(cfg))
        /\ \A i \in 1..Len(futures) :
              futures[i].state = "FINISHED" /\ futures[i].yielded

\* a scan of more ports than workers returned: the queued ports were
\* admitted as the earlier probes finished
C17_Witness ==
    /\ Returned
    /\ end_time > start_time
    /\ Len(futures) > cfg.max_workers
    /\ \A i \in 1..Len(futures) : futures[i].yielded
    /\ Len(futures) = MaxPorts

\* C18: the sequence scan_specific_ports returns and stores holds no port
\* number twice, also when the port list it was given repeats a port.
C18_RepeatsDeduplicated ==
    (cfg.fn = "scan_specific_ports" /\ Returned) =>
        /\ Distinct([k \in 1..Len(returned) |-> returned[k].port])
        /\ Distinct([k \in 1..Len(results) |-> results[k].port])

\* C20: whenever no scan is under way and scanner.results is non-empty, both
\* time stamps are set and are those of the scan that stored the results:
\* no later scan has been started since, and the end stamp is not earlier
\* than the start stamp.
C20_StampsBelongToResults ==
    (pc = "idle" /\ results # <<>>) =>
        /\ start_time # 0
        /\ end_time # 0
        /\ end_time >= start_time
        /\ outcome = "return"

\* C19: when main was given a port list (choice 4), it does not reach its
\* generic error handler before a probe was dispatched, and what it
\* displays is a scan that ran one probe per entered port, in the order
\* entered.
C19_SpecificPortsScanned ==
    (main # "none" /\ cfg.fn = "scan_specific_ports") =>
        /\ main = "error" => futures # <<>>
        /\ main \in {"displayed", "done"} =>
              /\ Returned
              /\ [i \in 1..Len(futures) |-> futures[i].port] = cfg.ports

====
